---- MODULE Spec2Model ----
(***************************************************************************)
(* pyosh.OSH_API: the record normaliser (_flatten_facilities_json, the     *)
(* facility-detail flattening of get_facility) as a state machine over     *)
(* decoded JSON documents.                                                 *)
(*                                                                         *)
(* A JSON value is a tagged tuple.  Composite values (list, dict) carry an *)
(* object identity, the path json.loads created them at, so that two       *)
(* references to one Python object are told apart from two equal objects.  *)
(* A dict is the sequence of its <<key, value>> items in insertion order.  *)
(* Numbers are integers.                                                   *)
(***************************************************************************)
EXTENDS Integers, Sequences, FiniteSets, TLC

VARIABLES
    r,           \* the response of the request sent (pyosh.py 698, 758)
    json_data,   \* the argument of _flatten_facilities_json (514)
    alldata,     \* what _flatten_facilities_json returned or raised (533-582)
    alldata_again, \* what a second call on the same record returned or raised
    data,        \* what get_facility returned or raised (799-806)
    result,      \* self.result["code"] (763, 804)
    raw_result,  \* self.raw_result (762)
    self_v,      \* self.v (789)
    op,          \* the call made last, or the call in progress
    request_url, \* get_facilities: the URL of the next request (480, 503)
    have_next,   \* get_facilities: the loop condition (479, 505, 509)
    sent,        \* the requests the call has sent, in order
    received,    \* the responses the call has received, in order
    last_api_call_epoch,     \* self.last_api_call_epoch (88, 484, 697, 756)
    last_api_call_duration,  \* self.last_api_call_duration (89, 486, 699, 759)
    clock,       \* time.time(), in ticks
    calls,       \* the number of calls made on the client
    contributors,              \* self.contributors (93, 169)
    countries_active_count,    \* self.countries_active_count (92, 347)
    facility_processing_types  \* self.facility_processing_types (836)

normaliser_vars ==
    <<r, json_data, alldata, alldata_again, data, result, raw_result, self_v, op>>
client_vars ==
    <<request_url, have_next, sent, received, last_api_call_epoch,
      last_api_call_duration, clock, calls,
      contributors, countries_active_count, facility_processing_types>>
vars == <<normaliser_vars, client_vars>>

-----------------------------------------------------------------------------
(* Python values *)

Null == <<"null">>
Num(n) == <<"num", n>>
Str(s) == <<"str", s>>
List(elems) == <<"list", <<>>, elems>>
Dict(items) == <<"dict", <<>>, items>>

IsNone(v) == v[1] = "null"
IsStr(v) == v[1] = "str"
IsList(v) == v[1] = "list"
IsDict(v) == v[1] = "dict"
IsComposite(v) == IsList(v) \/ IsDict(v)

(* the outcome of a call: a returned value or a raised exception *)
Ok(x) == <<"ok", x>>
Raise(e) == <<"raise", e>>
IsOk(o) == o[1] = "ok"
IsRaise(o) == o[1] = "raise"
NoCall == <<"none">>

(* a sequence built element by element, as a tuple *)
ToSeq(f) == <<>> \o f

(* json.loads: every list and dict of the document is a fresh object *)
RECURSIVE Label(_, _)
Label(v, path) ==
    IF IsList(v)
    THEN <<"list", path,
           ToSeq([i \in 1..Len(v[3]) |-> Label(v[3][i], Append(path, ToString(i)))])>>
    ELSE IF IsDict(v)
    THEN <<"dict", path,
           ToSeq([i \in 1..Len(v[3]) |->
               <<v[3][i][1], Label(v[3][i][2], Append(path, v[3][i][1]))>>])>>
    ELSE v

JsonLoads(v) == Label(v, <<>>)

(* dict operations, on the item sequence *)
Keys(items) == {items[i][1] : i \in 1..Len(items)}
HasKey(items, k) == k \in Keys(items)
Lookup(items, k) == items[CHOOSE i \in 1..Len(items) : items[i][1] = k][2]

(* d[k] = v: a present key keeps its place and takes the new value *)
SetItem(items, k, v) ==
    IF HasKey(items, k)
    THEN ToSeq([i \in 1..Len(items) |-> IF items[i][1] = k THEN <<k, v>> ELSE items[i]])
    ELSE Append(items, <<k, v>>)

(* v[key] with a string key *)
Subscript(v, key) ==
    IF IsDict(v)
    THEN IF HasKey(v[3], key) THEN Ok(Lookup(v[3], key)) ELSE Raise("KeyError")
    ELSE Raise("TypeError")

(* v[i] with a 0-based integer index *)
Index(v, i) ==
    IF IsList(v)
    THEN IF i < Len(v[3]) THEN Ok(v[3][i + 1]) ELSE Raise("IndexError")
    ELSE IF IsStr(v)
    THEN IF i < Len(v[2]) THEN Ok(Str(SubSeq(v[2], i + 1, i + 1)))
         ELSE Raise("IndexError")
    ELSE IF IsDict(v) THEN Raise("KeyError")
    ELSE Raise("TypeError")

(* str.startswith *)
StartsWith(s, prefix) ==
    Len(s) >= Len(prefix) /\ SubSeq(s, 1, Len(prefix)) = prefix

(* str.replace: non-overlapping occurrences, left to right *)
RECURSIVE Replace(_, _, _)
Replace(s, old, new) ==
    IF Len(s) < Len(old) THEN s
    ELSE IF SubSeq(s, 1, Len(old)) = old
    THEN new \o Replace(SubSeq(s, Len(old) + 1, Len(s)), old, new)
    ELSE SubSeq(s, 1, 1) \o Replace(SubSeq(s, 2, Len(s)), old, new)

(* str.join over a sequence of strings *)
RECURSIVE Join(_, _)
Join(sep, strs) ==
    IF Len(strs) = 0 THEN ""
    ELSE IF Len(strs) = 1 THEN strs[1]
    ELSE strs[1] \o sep \o Join(sep, Tail(strs))

(* str(v) as an f-string formats it; repr(v) inside a container *)
RECURSIVE PyRepr(_)
PyRepr(v) ==
    IF IsNone(v) THEN "None"
    ELSE IF v[1] = "num" THEN ToString(v[2])
    ELSE IF IsStr(v) THEN "'" \o v[2] \o "'"
    ELSE IF IsList(v)
    THEN "[" \o Join(", ", ToSeq([i \in 1..Len(v[3]) |-> PyRepr(v[3][i])])) \o "]"
    ELSE "{" \o Join(", ", ToSeq([i \in 1..Len(v[3]) |->
                 "'" \o v[3][i][1] \o "': " \o PyRepr(v[3][i][2])])) \o "}"

PyStr(v) == IF IsStr(v) THEN v[2] ELSE PyRepr(v)

-----------------------------------------------------------------------------
(* Building a row.  A write is <<key, value, source>>: the assignment      *)
(* d[key] = value together with the input field it was made for.           *)

RECURSIVE ApplyWrites(_, _)
ApplyWrites(items, writes) ==
    IF Len(writes) = 0 THEN items
    ELSE ApplyWrites(SetItem(items, writes[1][1], writes[1][2]), Tail(writes))

RECURSIVE ConcatAll(_)
ConcatAll(seqs) ==
    IF Len(seqs) = 0 THEN <<>> ELSE seqs[1] \o ConcatAll(Tail(seqs))

(* statements run in order: the first exception ends them, *)
(* otherwise their writes follow one another               *)
Collect(outs) ==
    IF \E i \in 1..Len(outs) : IsRaise(outs[i])
    THEN outs[CHOOSE i \in 1..Len(outs) :
                 IsRaise(outs[i]) /\ \A j \in 1..(i - 1) : IsOk(outs[j])]
    ELSE Ok(ConcatAll(ToSeq([i \in 1..Len(outs) |-> outs[i][2]])))

(* for x in v *)
Iterate(v) ==
    IF IsList(v) THEN Ok(v[3])
    ELSE IF IsStr(v) THEN Ok(ToSeq([i \in 1..Len(v[2]) |-> Str(SubSeq(v[2], i, i))]))
    ELSE IF IsDict(v) THEN Ok(ToSeq([i \in 1..Len(v[3]) |-> Str(v[3][i][1])]))
    ELSE Raise("TypeError")

(* len(v) *)
PyLen(v) ==
    IF IsComposite(v) THEN Ok(Len(v[3]))
    ELSE IF IsStr(v) THEN Ok(Len(v[2]))
    ELSE Raise("TypeError")

(* "|".join([f"{k}:{v}" for k,v in d.items()]) *)
SubRecordLine(d) ==
    IF IsDict(d)
    THEN Ok(Join("|", ToSeq([i \in 1..Len(d[3]) |->
                          d[3][i][1] \o ":" \o PyStr(d[3][i][2])])))
    ELSE Raise("AttributeError")

(* "\n".join(lines): every element must be a str *)
JoinLines(lines) ==
    IF \A i \in 1..Len(lines) : IsStr(lines[i])
    THEN Ok(Join("\n", ToSeq([i \in 1..Len(lines) |-> lines[i][2]])))
    ELSE Raise("TypeError")

(* one line per sub-record, joined, then lng: renamed to lon: *)
SerializeEach(elems) ==
    LET each == ToSeq([i \in 1..Len(elems) |-> SubRecordLine(elems[i])])
    IN  IF \E i \in 1..Len(each) : IsRaise(each[i])
        THEN Raise("AttributeError")
        ELSE Ok(Str(Replace(Join("\n", ToSeq([i \in 1..Len(each) |-> each[i][2]])),
                            "lng:", "lon:")))

SerializeSubRecords(vv) == SerializeEach(vv[3])

-----------------------------------------------------------------------------
(* _flatten_facilities_json: the base part *)

Sentinel(src) == << <<"lon", Num(-1), src>>, <<"lat", Num(-1), src>> >>

GeocodedGeometry_Swapped(v, src) ==
    LET c == Subscript(v, "coordinates")
    IN  IF IsRaise(c) THEN Sentinel(src)
        ELSE LET x == Index(c[2], 1)
                 y == Index(c[2], 0)
             IN  IF IsRaise(x) \/ IsRaise(y) THEN Sentinel(src)
                 ELSE << <<"lon", x[2], src>>, <<"lat", y[2], src>> >>

GeocodedGeometry(v, src) ==
    LET c == Subscript(v, "coordinates")
    IN  IF IsRaise(c) THEN Sentinel(src)
        ELSE LET x == Index(c[2], 0)
                 y == Index(c[2], 1)
             IN  IF IsRaise(x) THEN Sentinel(src)
                 ELSE IF IsRaise(y)
                 THEN << <<"lon", x[2], src>> >> \o Sentinel(src)
                 ELSE << <<"lon", x[2], src>>, <<"lat", y[2], src>> >>

BaseFieldWrites(k, v) ==
    IF k = "matches" THEN <<>>
    ELSE IF k = "geocoded_geometry" THEN GeocodedGeometry(v, <<k>>)
    ELSE IF ~IsNone(v) THEN << <<k, v, <<k>>>> >>
    ELSE << <<k, Str(""), <<k>>>> >>

BaseWrites(json) ==
    ConcatAll(ToSeq([i \in 1..Len(json[3]) |->
                  BaseFieldWrites(json[3][i][1], json[3][i][2])]))

base_entry(json) == ApplyWrites(<<>>, BaseWrites(json))

-----------------------------------------------------------------------------
(* _flatten_facilities_json: one match *)

MatchGeometry(v, src) ==
    LET c == Subscript(v, "coordinates")
    IN  IF IsRaise(c) THEN c
        ELSE LET x == Index(c[2], 0)
                 y == Index(c[2], 1)
             IN  IF IsRaise(x) THEN x
                 ELSE IF IsRaise(y) THEN y
                 ELSE Ok(<< <<"match_lon", x[2], src>>,
                            <<"match_lat", y[2], src>> >>)

(* the lines of one value of a doubly nested object *)
RECURSIVE ExtendedLines(_, _, _)
ExtendedLines(vvv, entries, lines) ==
    IF Len(entries) = 0 THEN Ok(lines)
    ELSE IF IsDict(entries[1])
    THEN ExtendedLines(vvv, Tail(entries),
                       Append(lines, Str(SubRecordLine(entries[1])[2])))
    ELSE IF IsStr(entries[1])
    THEN ExtendedLines(vvv, Tail(entries), <<vvv>>)
    ELSE Raise("ZeroDivisionError")

ExtendedWrites(kk, kkk, vvv, src) ==
    LET it == Iterate(vvv)
    IN  IF IsRaise(it) THEN it
        ELSE LET lines == ExtendedLines(vvv, it[2], <<>>)
             IN  IF IsRaise(lines) THEN lines
                 ELSE LET joined == JoinLines(lines[2])
                      IN  IF IsRaise(joined) THEN joined
                          ELSE Ok(<< <<"match_" \o kk \o "_" \o kkk,
                                       Str(Replace(joined[2], "lng:", "lon:")),
                                       src>> >>)

InnerWrites(k, kk, vv) ==
    IF IsList(vv)
    THEN IF Len(vv[3]) = 0
         THEN Ok(<< <<"match_" \o kk, Str(""), <<"match", k, kk>>>> >>)
         ELSE LET s == SerializeSubRecords(vv)
              IN  IF IsRaise(s) THEN s
                  ELSE Ok(<< <<"match_" \o kk, s[2], <<"match", k, kk>>>> >>)
    ELSE IF IsDict(vv)
    THEN Collect(ToSeq([i \in 1..Len(vv[3]) |->
                     ExtendedWrites(kk, vv[3][i][1], vv[3][i][2],
                                    <<"match", k, kk, vv[3][i][1]>>)]))
    ELSE IF StartsWith(kk, "ppe_") THEN Ok(<<>>)
    ELSE Ok(<< <<"match_" \o kk, vv, <<"match", k, kk>>>> >>)

SkippedMatchKeys == {"Feature", "type"}

MatchFieldWrites_NoPrefix(k, v) ==
    IF IsList(v) THEN Raise("ZeroDivisionError")
    ELSE IF k \in SkippedMatchKeys THEN Ok(<<>>)
    ELSE IF k = "geometry" THEN MatchGeometry(v, <<"match", k>>)
    ELSE IF IsDict(v)
    THEN Collect(ToSeq([i \in 1..Len(v[3]) |-> InnerWrites(k, v[3][i][1], v[3][i][2])]))
    ELSE Ok(<< <<k, v, <<"match", k>>>> >>)

MatchFieldWrites(k, v) ==
    IF IsList(v) THEN Raise("ZeroDivisionError")
    ELSE IF k \in SkippedMatchKeys THEN Ok(<<>>)
    ELSE IF k = "geometry" THEN MatchGeometry(v, <<"match", k>>)
    ELSE IF IsDict(v)
    THEN Collect(ToSeq([i \in 1..Len(v[3]) |-> InnerWrites(k, v[3][i][1], v[3][i][2])]))
    ELSE Ok(<< <<"match_" \o k, v, <<"match", k>>>> >>)

MatchNo_Carried(i) ==
    i + (IF alldata # NoCall /\ IsOk(alldata) THEN Len(alldata[2]) ELSE 0)

(* match_no starts at 1 and is incremented after every match *)
MatchNo(i) == i

(* new_data = {"match_no": match_no}; new_data.update(base_entry) *)
NewDataWrites(no, base) ==
    << <<"match_no", Num(no), <<"match_no">>>> >>
    \o ToSeq([i \in 1..Len(base) |-> <<base[i][1], base[i][2], <<"base", base[i][1]>>>>])

RowWrites(match, no, base) ==
    IF ~IsDict(match) THEN Raise("AttributeError")
    ELSE LET body == Collect(ToSeq([i \in 1..Len(match[3]) |->
                                 MatchFieldWrites(match[3][i][1], match[3][i][2])]))
         IN  IF IsRaise(body) THEN body
             ELSE Ok(NewDataWrites(no, base) \o body[2])

-----------------------------------------------------------------------------
(* _flatten_facilities_json: the rows *)

(* the write logs of the rows, one per match; <<>> when matches is empty *)
MatchRowWrites(json) ==
    LET m == Subscript(json, "matches")
    IN  IF IsRaise(m) THEN m
        ELSE IF IsRaise(PyLen(m[2])) THEN PyLen(m[2])
        ELSE LET it == Iterate(m[2])[2]
                 rows == ToSeq([i \in 1..Len(it) |->
                             RowWrites(it[i], MatchNo(i), base_entry(json))])
             IN  IF \E i \in 1..Len(rows) : IsRaise(rows[i])
                 THEN rows[CHOOSE i \in 1..Len(rows) :
                              IsRaise(rows[i]) /\ \A j \in 1..(i - 1) : IsOk(rows[j])]
                 ELSE Ok(ToSeq([i \in 1..Len(rows) |-> rows[i][2]]))

AllData_BaseAlways(base, rows) == Append(rows, base)

(* alldata: the match rows, or the base entry alone when there is no match *)
AllData(base, rows) ==
    IF Len(rows) > 0 THEN rows ELSE <<base>>

_flatten_facilities_json(json) ==
    LET logs == MatchRowWrites(json)
    IN  IF IsRaise(logs) THEN logs
        ELSE Ok(AllData(base_entry(json),
                        ToSeq([i \in 1..Len(logs[2]) |-> ApplyWrites(<<>>, logs[2][i])])))

-----------------------------------------------------------------------------
(* get_facility: the flattening of a facility document *)

(* entry = {"id": ..., "lon": ..., "lat": ...} *)
FacilityHead(doc) ==
    LET id == Subscript(doc, "id")
        g == Subscript(doc, "geometry")
        c == IF IsOk(g) THEN Subscript(g[2], "coordinates") ELSE g
        x == IF IsOk(c) THEN Index(c[2], 0) ELSE c
        y == IF IsOk(c) THEN Index(c[2], 1) ELSE c
    IN  IF IsRaise(id) THEN id
        ELSE IF IsRaise(x) THEN x
        ELSE IF IsRaise(y) THEN y
        ELSE Ok(<< <<"id", id[2], <<"id">>>>,
                   <<"lon", x[2], <<"geometry">>>>,
                   <<"lat", y[2], <<"geometry">>>> >>)

(* entry[f"{kk}_extended"] for one key of extended_fields *)
ExtendedFieldWrites(kk, vkk, src) ==
    LET it == Iterate(vkk)
    IN  IF IsRaise(it) THEN it
        ELSE LET s == SerializeEach(it[2])
             IN  IF IsRaise(s) THEN s
                 ELSE Ok(<< <<kk \o "_extended", s[2], src>> >>)

PropertyWrites(k, val, return_extended_fields) ==
    LET src == <<"properties", k>>
    IN
    IF StartsWith(k, "ppe_") THEN Ok(<<>>)
    ELSE IF IsList(val)
    THEN IF Len(val[3]) > 0 /\ IsDict(val[3][1])
         THEN LET s == SerializeSubRecords(val)
              IN  IF IsRaise(s) THEN s ELSE Ok(<< <<k, s[2], src>> >>)
         ELSE LET s == JoinLines(val[3])
              IN  IF IsRaise(s) THEN s ELSE Ok(<< <<k, Str(s[2]), src>> >>)
    ELSE IF k = "extended_fields" /\ return_extended_fields
    THEN IF ~IsDict(val) THEN Raise("AttributeError")
         ELSE Collect(ToSeq([i \in 1..Len(val[3]) |->
                  ExtendedFieldWrites(val[3][i][1], val[3][i][2],
                                      <<"properties", k, val[3][i][1]>>)]))
    ELSE IF k = "created_from"
    THEN LET s == SubRecordLine(val)
         IN  IF IsRaise(s) THEN s ELSE Ok(<< <<k, Str(s[2]), src>> >>)
    ELSE IF k = "extended_fields" /\ ~return_extended_fields THEN Ok(<<>>)
    ELSE IF ~IsNone(val) THEN Ok(<< <<k, val, src>> >>)
    ELSE Ok(<< <<k, Str(""), src>> >>)

(* the write log of entry, or the exception that ends the call *)
FacilityWrites(doc, return_extended_fields) ==
    LET head == FacilityHead(doc)
        p == Subscript(doc, "properties")
    IN  IF IsRaise(head) THEN head
        ELSE IF IsRaise(p) THEN p
        ELSE IF ~IsDict(p[2]) THEN Raise("AttributeError")
        ELSE LET body == Collect(ToSeq([i \in 1..Len(p[2][3]) |->
                             PropertyWrites(p[2][3][i][1], p[2][3][i][2],
                                            return_extended_fields)]))
             IN  IF IsRaise(body) THEN body ELSE Ok(head[2] \o body[2])

(* data = entry.copy() *)
FacilityEntry(doc, return_extended_fields) ==
    LET w == FacilityWrites(doc, return_extended_fields)
    IN  IF IsRaise(w) THEN w ELSE Ok(ApplyWrites(<<>>, w[2]))

(* self.v = v.copy(): reached when the loop gets to created_from *)
CreatedFromReached(doc, return_extended_fields) ==
    LET p == Subscript(doc, "properties")
    IN  /\ IsOk(FacilityHead(doc))
        /\ IsOk(p) /\ IsDict(p[2])
        /\ \E i \in 1..Len(p[2][3]) :
              /\ p[2][3][i][1] = "created_from"
              /\ IsDict(p[2][3][i][2])
              /\ ~(return_extended_fields /\ p[2][3][i][1] = "extended_fields")
              /\ \A j \in 1..(i - 1) :
                    IsOk(PropertyWrites(p[2][3][j][1], p[2][3][j][2],
                                        return_extended_fields))

-----------------------------------------------------------------------------
(* The documents the operations are run on *)

MaxMatches == 2

Field(k, val) == << <<k, val>> >>
Coordinates(cs) == Dict(Field("coordinates", List(cs)))

(* the two scenarios of the specification's section 8 *)
ScenarioProperties ==
    Dict(Field("name", Str("Acme")) \o Field("ppe_foo", Str("drop-me")))
ScenarioMatch ==
    Dict(Field("geometry", Coordinates(<<Num(11), Num(21)>>))
         \o Field("name", Str("Acme B")))
ScenarioBase ==
    Field("id", Str("X1"))
    \o Field("geometry", Coordinates(<<Num(10), Num(20)>>))
    \o Field("properties", ScenarioProperties)
ScenarioNoMatch == Dict(ScenarioBase \o Field("matches", List(<<>>)))
ScenarioWithMatch ==
    Dict(ScenarioBase \o Field("matches", List(<<ScenarioMatch>>)))

SubRecords ==
    List(<< Dict(Field("id", Num(1)) \o Field("lng", Num(5))),
            Dict(Field("id", Num(2)) \o Field("lng", Num(6))) >>)

Matches ==
    { ScenarioMatch,
      Dict(Field("type", Str("Feature"))
           \o Field("geometry", Coordinates(<<Num(11), Num(21)>>))
           \o Field("name", Str("Acme B"))),
      Dict(<<>>),
      Dict(Field("name", Str("A"))
           \o Field("details", Dict(Field("name", Str("C"))
                                    \o Field("ppe_x", Num(1))
                                    \o Field("n", Null)))),
      Dict(Field("lon", Num(3))
           \o Field("geometry", Coordinates(<<Num(11), Num(21)>>))),
      Dict(Field("ppe_y", Str("s"))),
      Dict(Field("tags", List(<<Str("a"), Str("b")>>))),
      Dict(Field("geometry", Null)),
      Dict(Field("properties",
                 Dict(Field("ppe_list", SubRecords)
                      \o Field("contributors", SubRecords)
                      \o Field("empty", List(<<>>))
                      \o Field("ext", Dict(Field("ppe_k", SubRecords)
                                           \o Field("s", Str("txt"))))))),
      Dict(Field("name", Str("A")) \o Field("contributors", SubRecords)),
      Dict(Field("properties",
                 Dict(Field("ext",
                            Dict(Field("subs", SubRecords)
                                 \o Field("tags", List(<<Str("a"), Str("b")>>))))))),
      Dict(Field("properties",
                 Dict(Field("links",
                            List(<<Dict(Field("xlng", Num(1))
                                        \o Field("note", Str("lng:5")))>>))))) }

MatchLists == UNION {[1..n -> Matches] : n \in 0..MaxMatches}

IdFields == {<<>>, Field("id", Str("X1"))}

GeocodedFields ==
    {<<>>}
    \cup {Field("geocoded_geometry", g) :
             g \in {Null, Dict(<<>>), Coordinates(<<Num(10)>>),
                    Coordinates(<<Num(10), Num(20)>>)}}

ExtraFields ==
    { <<>>,
      Field("name", Str("Acme")),
      Field("lon", Num(5)),
      Field("properties", ScenarioProperties),
      Field("ppe_hazard", Str("x")),
      Field("match_no", Num(7)),
      Field("match_name", Str("B")),
      Field("status", Null),
      Field("sectors", List(<<Str("Apparel")>>)) }

MatchesFields == {<<>>} \cup {Field("matches", List(ms)) : ms \in MatchLists}

(* the decoded bodies post_facilities hands to _flatten_facilities_json *)
Records ==
    {JsonLoads(ScenarioNoMatch), JsonLoads(ScenarioWithMatch)}
    \cup {JsonLoads(Dict(i \o g \o e \o m)) :
             i \in IdFields, g \in GeocodedFields,
             e \in ExtraFields, m \in MatchesFields}

GeometryFields ==
    {<<>>}
    \cup {Field("geometry", g) :
             g \in {Null, Dict(<<>>), Coordinates(<<Num(10)>>),
                    Coordinates(<<Num(10), Num(20)>>)}}

ExtendedFields ==
    Dict(Field("name", SubRecords) \o Field("ppe_z", SubRecords))

PropertySets ==
    { <<>>,
      Field("name", Str("Acme")) \o Field("ppe_foo", Str("drop-me")),
      Field("address", Dict(Field("city", Str("Augsburg")))),
      Field("contributors", SubRecords),
      Field("ppe_list", SubRecords),
      Field("tags", List(<<Str("a"), Str("b")>>)),
      Field("numbers", List(<<Num(1), Num(2)>>)),
      Field("abc", List(<<Dict(Field("a", Num(1))), Dict(Field("a", Num(2))),
                          Dict(Field("a", Num(3)))>>)),
      Field("links", List(<<Dict(Field("xlng", Num(1)) \o Field("lat", Num(2)))>>)),
      Field("notes", List(<<Dict(Field("note", Str("lng:5")))>>)),
      Field("empty", List(<<>>)),
      Field("extended_fields", ExtendedFields),
      Field("name_extended", Str("n")) \o Field("extended_fields", ExtendedFields),
      Field("created_from", Dict(Field("lng", Num(5)) \o Field("lat", Num(6)))),
      Field("status", Null),
      Field("id", Str("P")),
      Field("lon", Num(5)) }

(* the decoded bodies of GET /api/facilities/{id}/ *)
FacilityDocs ==
    {JsonLoads(Dict(i \o g \o Field("properties", Dict(ps)))) :
        i \in IdFields, g \in GeometryFields, ps \in PropertySets}

-----------------------------------------------------------------------------
(* The caller changes, in place, a list or dict it reached through a row:  *)
(* every reference to that object sees the change.                         *)
RECURSIVE MutateObject(_, _)
MutateObject(val, id) ==
    IF IsList(val)
    THEN LET elems == ToSeq([i \in 1..Len(val[3]) |-> MutateObject(val[3][i], id)])
         IN  <<"list", val[2],
               IF val[2] = id THEN Append(elems, Str("mutated")) ELSE elems>>
    ELSE IF IsDict(val)
    THEN LET items == ToSeq([i \in 1..Len(val[3]) |->
                          <<val[3][i][1], MutateObject(val[3][i][2], id)>>])
         IN  <<"dict", val[2],
               IF val[2] = id THEN Append(items, <<"mutated", Num(1)>>)
               ELSE items>>
    ELSE val

MutateRow(row, id) ==
    ToSeq([i \in 1..Len(row) |-> <<row[i][1], MutateObject(row[i][2], id)>>])

-----------------------------------------------------------------------------
(* r is the server's answer to the request the client sends:               *)
(* <<endpoint, r.ok, json.loads(r.text)>>                                  *)
Responses ==
    {<<"POST /api/facilities/", TRUE, record>> : record \in Records}
    \cup {<<"GET /api/facilities/{id}/", ok, doc>> :
             ok \in BOOLEAN, doc \in FacilityDocs}

(* the attributes __init__ sets, and no call in progress *)
ClientInit ==
    /\ request_url = NoCall
    /\ have_next = FALSE
    /\ sent = <<>>
    /\ received = <<>>
    /\ last_api_call_epoch = -1
    /\ last_api_call_duration = -1
    /\ clock = 0
    /\ calls = 0
    /\ contributors = <<>>
    /\ countries_active_count = -1
    /\ facility_processing_types = NoCall

Init ==
    /\ r \in Responses
    /\ json_data = NoCall
    /\ alldata = NoCall
    /\ alldata_again = NoCall
    /\ data = NoCall
    /\ result = 0
    /\ raw_result = NoCall
    /\ self_v = NoCall
    /\ op = <<"init">>
    /\ ClientInit

(* data = json.loads(r.text); data = self._flatten_facilities_json(data) *)
FlattenFacilitiesJson ==
    /\ op = <<"init">>
    /\ r[1] = "POST /api/facilities/"
    /\ json_data' = r[3]
    /\ alldata' = _flatten_facilities_json(r[3])
    /\ op' = <<"flatten">>
    /\ UNCHANGED <<r, alldata_again, data, result, raw_result, self_v>>
    /\ UNCHANGED client_vars

(* the caller passes the same record object to _flatten_facilities_json   *)
(* once more, right after the first call                                  *)
FlattenAgain ==
    /\ op = <<"flatten">>
    /\ alldata_again' = _flatten_facilities_json(json_data)
    /\ op' = <<"flatten_again">>
    /\ UNCHANGED <<r, json_data, alldata, data, result, raw_result, self_v>>
    /\ UNCHANGED client_vars

(* the ticks between the two readings of time.time() around a request *)
Latency == 1

(* get_facility(osh_id, return_extended_fields) *)
GetFacility ==
    /\ op = <<"init">>
    /\ r[1] = "GET /api/facilities/{id}/"
    /\ \E return_extended_fields \in BOOLEAN :
        /\ op' = <<"get_facility", return_extended_fields>>
        /\ IF r[2]
           THEN /\ raw_result' = <<"dict", <<"raw_result">>, r[3][3]>>
                /\ result' = 0
                /\ data' = FacilityEntry(r[3], return_extended_fields)
                /\ self_v' = IF CreatedFromReached(r[3], return_extended_fields)
                             THEN <<"dict", <<"v">>,
                                    Lookup(Lookup(r[3][3], "properties")[3],
                                           "created_from")[3]>>
                             ELSE self_v
           ELSE /\ data' = Ok(<<>>)
                /\ result' = -1
                /\ UNCHANGED <<raw_result, self_v>>
    /\ last_api_call_epoch' = clock
    /\ clock' = clock + Latency
    /\ last_api_call_duration' = clock' - last_api_call_epoch'
    /\ calls' = calls + 1
    /\ UNCHANGED <<r, json_data, alldata, alldata_again>>
    /\ UNCHANGED <<request_url, have_next, sent, received>>
    /\ UNCHANGED <<contributors, countries_active_count, facility_processing_types>>

(* after _flatten_facilities_json has returned, the caller mutates a      *)
(* composite value of row i                                               *)
Mutate ==
    /\ op = <<"flatten">>
    /\ IsOk(alldata)
    /\ \E i \in 1..Len(alldata[2]) : \E j \in 1..Len(alldata[2][i]) :
          /\ IsComposite(alldata[2][i][j][2])
          /\ LET id == alldata[2][i][j][2][2]
             IN  /\ alldata' = Ok(ToSeq([n \in 1..Len(alldata[2]) |->
                                      MutateRow(alldata[2][n], id)]))
                 /\ json_data' = MutateObject(json_data, id)
          /\ op' = <<"mutate", i, alldata[2][i][j][1]>>
    /\ UNCHANGED <<r, alldata_again, data, result, raw_result, self_v>>
    /\ UNCHANGED client_vars

Next == FlattenFacilitiesJson \/ FlattenAgain \/ GetFacility \/ Mutate

Spec == Init /\ [][Next]_vars

-----------------------------------------------------------------------------
(* What the claims are stated over *)

(* _flatten_facilities_json has returned its rows, not yet touched *)
FlattenReturned == op = <<"flatten">> /\ IsOk(alldata)

(* get_facility has returned the entry of an OK response *)
FacilityReturned == op[1] = "get_facility" /\ r[2] /\ IsOk(data)

(* the entries of the record's matches list *)
InputMatches == Lookup(json_data[3], "matches")[3]

(* the write log of every returned row *)
RowLogs ==
    IF Len(InputMatches) = 0 THEN <<BaseWrites(json_data)>>
    ELSE MatchRowWrites(json_data)[2]

(* C1: whenever _flatten_facilities_json returns, the number of rows is    *)
(* max(1, number of match entries): one row for an empty matches list,     *)
(* otherwise one row per match.                                            *)
C1_RowCountLaw ==
    FlattenReturned =>
        Len(alldata[2]) = IF Len(InputMatches) > 1 THEN Len(InputMatches) ELSE 1

C1_Witness ==
    FlattenReturned /\ Len(InputMatches) >= 2 /\ Len(alldata[2]) = Len(InputMatches)

(* C2: for a record with at least one match, every key of the base entry   *)
(* is in every returned row with the value the base entry gave it.         *)
C2_FieldUnionLaw ==
    (FlattenReturned /\ Len(InputMatches) > 0) =>
        \A i \in 1..Len(alldata[2]) :
            \A k \in Keys(base_entry(json_data)) :
                /\ HasKey(alldata[2][i], k)
                /\ Lookup(alldata[2][i], k) = Lookup(base_entry(json_data), k)

(* C3: no value of a returned row, of either flattening routine, is a      *)
(* list or a dict.                                                         *)
C3_FlatRowInvariant ==
    /\ FlattenReturned =>
          \A i \in 1..Len(alldata[2]) : \A j \in 1..Len(alldata[2][i]) :
              ~IsComposite(alldata[2][i][j][2])
    /\ FacilityReturned =>
          \A j \in 1..Len(data[2]) : ~IsComposite(data[2][j][2])

(* C4: with two or more rows returned, mutating a value reached through    *)
(* one row leaves every other row, and the input record, as they were.     *)
C4_RowIndependence ==
    [][(op'[1] = "mutate" /\ Len(alldata[2]) >= 2) =>
          /\ json_data' = json_data
          /\ \A n \in 1..Len(alldata[2]) :
                n # op'[2] => alldata'[2][n] = alldata[2][n]]_vars

(* a source path that goes through a ppe_ key *)
PpeSource(src) == \E n \in 1..Len(src) : StartsWith(src[n], "ppe_")

(* C5: no key of a returned row was written for an input field whose key,  *)
(* at any nesting level, begins with ppe_.                                 *)
C5_ExclusionPrefix ==
    /\ FlattenReturned =>
          \A i \in 1..Len(RowLogs) : \A w \in 1..Len(RowLogs[i]) :
              ~PpeSource(RowLogs[i][w][3])
    /\ FacilityReturned =>
          LET log == FacilityWrites(r[3], op[2])[2]
          IN  \A w \in 1..Len(log) : ~PpeSource(log[w][3])

ScenarioGeocoded ==
    Dict(Field("id", Str("X1"))
         \o Field("geocoded_geometry", Coordinates(<<Num(10), Num(20)>>))
         \o Field("name", Str("Acme"))
         \o Field("matches", List(<<>>)))

Malformed(g) ==
    LET c == Subscript(g, "coordinates")
    IN  IsRaise(c) \/ IsRaise(Index(c[2], 0)) \/ IsRaise(Index(c[2], 1))

HasSentinel(row) ==
    /\ HasKey(row, "lon") /\ Lookup(row, "lon") = Num(-1)
    /\ HasKey(row, "lat") /\ Lookup(row, "lat") = Num(-1)

(* C7: a geometry value without usable coordinates never makes the base    *)
(* flattening fail and gives lon = -1 and lat = -1, in both routines (in   *)
(* _flatten_facilities_json: of a record with no other field named lon or  *)
(* lat).                                                                   *)
C7_CoordinateDegradation ==
    /\ (/\ FlattenReturned
        /\ HasKey(json_data[3], "geocoded_geometry")
        /\ Malformed(Lookup(json_data[3], "geocoded_geometry"))
        /\ ~HasKey(json_data[3], "lon") /\ ~HasKey(json_data[3], "lat")) =>
          \A i \in 1..Len(alldata[2]) : HasSentinel(alldata[2][i])
    /\ (/\ op[1] = "get_facility" /\ r[2]
        /\ HasKey(r[3][3], "id")
        /\ HasKey(r[3][3], "geometry")
        /\ Malformed(Lookup(r[3][3], "geometry"))) =>
          IsOk(data) /\ HasSentinel(data[2])

(* C8: with n >= 1 matches there are n rows and the i-th carries           *)
(* match_no = i.                                                           *)
C8_MatchOrdinal ==
    (FlattenReturned /\ Len(InputMatches) >= 1) =>
        /\ Len(alldata[2]) = Len(InputMatches)
        /\ \A i \in 1..Len(alldata[2]) :
              /\ HasKey(alldata[2][i], "match_no")
              /\ Lookup(alldata[2][i], "match_no") = Num(i)

(* C9: in the row of every match, the geometry is match_lon / match_lat    *)
(* and every other top-level scalar field k is match_<k> with its value.   *)
C9_MatchScalarFields ==
    (FlattenReturned /\ Len(InputMatches) >= 1) =>
        \A i \in 1..Len(alldata[2]) :
            \A p \in 1..Len(InputMatches[i][3]) :
                LET k == InputMatches[i][3][p][1]
                    val == InputMatches[i][3][p][2]
                    row == alldata[2][i]
                IN  IF k = "geometry"
                    THEN /\ HasKey(row, "match_lon") /\ HasKey(row, "match_lat")
                         /\ Lookup(row, "match_lon")
                               = Lookup(val[3], "coordinates")[3][1]
                         /\ Lookup(row, "match_lat")
                               = Lookup(val[3], "coordinates")[3][2]
                    ELSE ~IsComposite(val) =>
                            /\ HasKey(row, "match_" \o k)
                            /\ Lookup(row, "match_" \o k) = val

(* the row keys a field of a match is written to *)
FieldOutKeys(k, val) ==
    IF k \in {"Feature", "type"} THEN {}
    ELSE IF k = "geometry" THEN {"match_lon", "match_lat"}
    ELSE IF IsDict(val)
    THEN UNION {LET kk == val[3][n][1]
                    vv == val[3][n][2]
                IN  IF IsList(vv) THEN {"match_" \o kk}
                    ELSE IF IsDict(vv)
                    THEN {"match_" \o kk \o "_" \o vv[3][m][1] :
                             m \in 1..Len(vv[3])}
                    ELSE IF StartsWith(kk, "ppe_") THEN {}
                    ELSE {"match_" \o kk}
                : n \in 1..Len(val[3])}
    ELSE {"match_" \o k}

WrittenLater(match, p, key) ==
    \E q \in (p + 1)..Len(match[3]) :
        key \in FieldOutKeys(match[3][q][1], match[3][q][2])

(* C9, amended: the keys Feature and type are skipped; every other         *)
(* top-level scalar field k of a match is in its row as match_<k>, and the *)
(* geometry as match_lon / match_lat; the row holds the field's value      *)
(* unless a later field of the same match is written to the same key.      *)
C9_MatchScalarFieldsAmended ==
    (FlattenReturned /\ Len(InputMatches) >= 1) =>
        \A i \in 1..Len(alldata[2]) :
            \A p \in 1..Len(InputMatches[i][3]) :
                LET k == InputMatches[i][3][p][1]
                    val == InputMatches[i][3][p][2]
                    row == alldata[2][i]
                    kept(key, x) ==
                        /\ HasKey(row, key)
                        /\ ~WrittenLater(InputMatches[i], p, key) =>
                              Lookup(row, key) = x
                IN  IF k \in {"Feature", "type"}
                    THEN HasKey(row, "match_" \o k) =>
                            \/ HasKey(base_entry(json_data), "match_" \o k)
                            \/ \E q \in 1..Len(InputMatches[i][3]) :
                                  ("match_" \o k) \in
                                      FieldOutKeys(InputMatches[i][3][q][1],
                                                   InputMatches[i][3][q][2])
                    ELSE IF k = "geometry"
                    THEN /\ kept("match_lon", Lookup(val[3], "coordinates")[3][1])
                         /\ kept("match_lat", Lookup(val[3], "coordinates")[3][2])
                    ELSE ~IsComposite(val) => kept("match_" \o k, val)

C9_Witness ==
    /\ FlattenReturned
    /\ Len(InputMatches) >= 1
    /\ \E i \in 1..Len(alldata[2]) :
          /\ HasKey(InputMatches[i][3], "type")
          /\ HasKey(InputMatches[i][3], "name")
          /\ HasKey(alldata[2][i], "match_name")
          /\ Lookup(alldata[2][i], "match_name") = Lookup(InputMatches[i][3], "name")
          /\ ~HasKey(alldata[2][i], "match_type")

(* every key of a write log has one source *)
NoCollision(log) ==
    \A a \in 1..Len(log) : \A b \in 1..Len(log) :
        log[a][1] = log[b][1] => log[a][3] = log[b][3]

(* C10: while one row is built, no key is written for two different input  *)
(* fields.                                                                 *)
C10_NoKeyCollision ==
    /\ FlattenReturned =>
          /\ NoCollision(BaseWrites(json_data))
          /\ \A i \in 1..Len(RowLogs) : NoCollision(RowLogs[i])
    /\ FacilityReturned => NoCollision(FacilityWrites(r[3], op[2])[2])

-----------------------------------------------------------------------------
(* Faults *)

(* _flatten_facilities_json was called on a record with a matches list *)
FlattenCalled ==
    /\ op = <<"flatten">>
    /\ HasKey(json_data[3], "matches")
    /\ IsList(Lookup(json_data[3], "matches"))

IsScalar(val) == ~IsComposite(val)

(* a non-empty list of scalars / of dicts *)
BareSequence(val) ==
    IsList(val) /\ Len(val[3]) > 0 /\ \A n \in 1..Len(val[3]) : IsScalar(val[3][n])
SubRecordSequence(val) ==
    IsList(val) /\ Len(val[3]) > 0 /\ \A n \in 1..Len(val[3]) : IsDict(val[3][n])

(* C11: a match with a top-level field whose value is a bare sequence of   *)
(* scalars makes the call fail with no rows returned, and only that shape  *)
(* does: a record whose matches hold nothing but scalar fields (none of    *)
(* them the geometry) and top-level sequences of sub-records is flattened  *)
(* without a fault.                                                        *)
C11_UnsupportedMatchShape ==
    /\ (/\ FlattenCalled
        /\ \E i \in 1..Len(InputMatches) : \E p \in 1..Len(InputMatches[i][3]) :
              BareSequence(InputMatches[i][3][p][2])) =>
          IsRaise(alldata)
    /\ (/\ FlattenCalled
        /\ \A i \in 1..Len(InputMatches) : \A p \in 1..Len(InputMatches[i][3]) :
              \/ /\ IsScalar(InputMatches[i][3][p][2])
                 /\ InputMatches[i][3][p][1] # "geometry"
              \/ SubRecordSequence(InputMatches[i][3][p][2])) =>
          IsOk(alldata)

(* the row of match i, built on its own *)
RowAlone(i) == RowWrites(InputMatches[i], MatchNo(i), base_entry(json_data))

(* C12: every match entry that can be flattened on its own has its row in  *)
(* what the call returns, whatever the other entries of the record are.    *)
C12_ErrorIsolation ==
    FlattenCalled =>
        \A i \in 1..Len(InputMatches) :
            IsOk(RowAlone(i)) =>
                /\ IsOk(alldata)
                /\ \E n \in 1..Len(alldata[2]) :
                      alldata[2][n] = ApplyWrites(<<>>, RowAlone(i)[2])

(* a match's geometry has no usable coordinates *)
MatchGeometryMalformed ==
    /\ FlattenCalled
    /\ \E i \in 1..Len(InputMatches) :
          /\ HasKey(InputMatches[i][3], "geometry")
          /\ ~IsList(Lookup(InputMatches[i][3], "geometry"))
          /\ Malformed(Lookup(InputMatches[i][3], "geometry"))

(* a value nested in an object field of a match has a shape that the       *)
(* expansion of that field fails on                                        *)
NestedShapeUnexpected ==
    /\ FlattenCalled
    /\ \E i \in 1..Len(InputMatches) : \E p \in 1..Len(InputMatches[i][3]) :
          LET k == InputMatches[i][3][p][1]
              val == InputMatches[i][3][p][2]
          IN  /\ IsDict(val) /\ k \notin SkippedMatchKeys /\ k # "geometry"
              /\ IsRaise(MatchFieldWrites(k, val))

(* C13: a record without a matches key, a match geometry without usable    *)
(* coordinates and a nested match value of an unexpected shape end the     *)
(* call in a MalformedRecord error.                                        *)
C13_TypedFailure ==
    (/\ op = <<"flatten">>
     /\ \/ ~HasKey(json_data[3], "matches")
        \/ MatchGeometryMalformed
        \/ NestedShapeUnexpected) =>
        alldata = Raise("MalformedRecord")

-----------------------------------------------------------------------------
(* Serialized composites *)

(* substring test *)
RECURSIVE Contains(_, _)
Contains(s, sub) ==
    IF Len(s) < Len(sub) THEN FALSE
    ELSE IF SubSeq(s, 1, Len(sub)) = sub THEN TRUE
    ELSE Contains(SubSeq(s, 2, Len(s)), sub)

(* the number of lines of a string *)
RECURSIVE CountLines(_)
CountLines(s) ==
    IF Len(s) = 0 THEN 1
    ELSE (IF SubSeq(s, 1, 1) = "\n" THEN 1 ELSE 0) + CountLines(SubSeq(s, 2, Len(s)))

(* a non-empty sequence of sub-records with scalar values *)
FlatSubRecords(val) ==
    /\ SubRecordSequence(val)
    /\ \A n \in 1..Len(val[3]) : \A m \in 1..Len(val[3][n][3]) :
          IsScalar(val[3][n][3][m][2])

(* the serialization the specification describes: key:value pairs joined   *)
(* by |, the key lng written lon, one line per sub-record                  *)
ExpectedPair(k, val) == (IF k = "lng" THEN "lon" ELSE k) \o ":" \o PyStr(val)
ExpectedLine(d) ==
    Join("|", ToSeq([m \in 1..Len(d[3]) |-> ExpectedPair(d[3][m][1], d[3][m][2])]))
ExpectedLines(val) ==
    Str(Join("\n", ToSeq([n \in 1..Len(val[3]) |-> ExpectedLine(val[3][n])])))

SerializedAs(row, key, val) ==
    /\ HasKey(row, key)
    /\ Lookup(row, key) = ExpectedLines(val)
    /\ CountLines(Lookup(row, key)[2]) = Len(val[3])

(* C14: a property (get_facility) or a field of a nested object of a match *)
(* (_flatten_facilities_json) whose value is a non-empty sequence of flat  *)
(* sub-records is in the row as one line per sub-record, in input order,   *)
(* each line the sub-record's key:value pairs in key order joined by |.    *)
C14_SubRecordSerialization ==
    /\ FacilityReturned =>
          LET p == Lookup(r[3][3], "properties")[3]
          IN  \A n \in 1..Len(p) :
                  (FlatSubRecords(p[n][2]) /\ ~StartsWith(p[n][1], "ppe_")) =>
                      SerializedAs(data[2], p[n][1], p[n][2])
    /\ FlattenReturned =>
          \A i \in 1..Len(InputMatches) : \A p \in 1..Len(InputMatches[i][3]) :
              LET k == InputMatches[i][3][p][1]
                  val == InputMatches[i][3][p][2]
              IN  (IsDict(val) /\ k \notin SkippedMatchKeys /\ k # "geometry") =>
                      \A n \in 1..Len(val[3]) :
                          (/\ FlatSubRecords(val[3][n][2])
                           /\ ~StartsWith(val[3][n][1], "ppe_")) =>
                              SerializedAs(alldata[2][i], "match_" \o val[3][n][1],
                                           val[3][n][2])

(* a line of s has a pair whose key is key *)
HasPairKey(s, key) ==
    \/ StartsWith(s, key \o ":")
    \/ Contains(s, "|" \o key \o ":")
    \/ Contains(s, "\n" \o key \o ":")

(* the input value a write of get_facility / of a match row was made for *)
PropertySource(src) ==
    LET p == Lookup(Lookup(r[3][3], "properties")[3], src[2])
    IN  IF Len(src) = 2 THEN p ELSE Lookup(p[3], src[3])
MatchSource(match, src) ==
    LET v1 == Lookup(match[3], src[2])
    IN  IF Len(src) = 2 THEN v1
        ELSE IF Len(src) = 3 THEN Lookup(v1[3], src[3])
        ELSE Lookup(Lookup(v1[3], src[3])[3], src[4])

(* the strings of a write log that were serialized from a list or a dict, *)
(* each with the value it was serialized from                             *)
FacilitySerialized ==
    LET log == FacilityWrites(r[3], op[2])[2]
    IN  {<<log[w][2][2], PropertySource(log[w][3])>> :
            w \in {x \in 1..Len(log) :
                      /\ log[x][3][1] = "properties"
                      /\ IsStr(log[x][2])
                      /\ IsComposite(PropertySource(log[x][3]))}}
MatchSerialized(i) ==
    LET log == RowLogs[i]
    IN  {<<log[w][2][2], MatchSource(InputMatches[i], log[w][3])>> :
            w \in {x \in 1..Len(log) :
                      /\ log[x][3][1] = "match"
                      /\ IsStr(log[x][2])
                      /\ IsComposite(MatchSource(InputMatches[i], log[x][3]))}}

(* the sub-records a value is made of: its elements, or itself *)
SubRecordsOf(val) ==
    IF IsDict(val) THEN {val}
    ELSE {val[3][n] : n \in {m \in 1..Len(val[3]) : IsDict(val[3][m])}}

RenamedIn(s, val) ==
    /\ ~HasPairKey(s, "lng")
    /\ \A d \in SubRecordsOf(val) :
          HasKey(d[3], "lng") =>
              Contains(s, "lon:" \o PyStr(Lookup(d[3], "lng")))

(* C15: in every string that a row holds for a list of sub-records or for  *)
(* a nested object, no pair has the key lng, and a sub-record's lng: x is  *)
(* written lon:x.                                                          *)
C15_LngRename ==
    /\ FacilityReturned =>
          \A sv \in FacilitySerialized : RenamedIn(sv[1], sv[2])
    /\ (FlattenReturned /\ Len(InputMatches) >= 1) =>
          \A i \in 1..Len(InputMatches) :
              \A sv \in MatchSerialized(i) : RenamedIn(sv[1], sv[2])

-----------------------------------------------------------------------------
(* Nested objects of a match *)

StringSequence(val) ==
    IsList(val) /\ \A n \in 1..Len(val[3]) : IsStr(val[3][n])

(* the shapes of the values of a doubly nested object *)
ExtendedShape(vvv) ==
    FlatSubRecords(vvv) \/ StringSequence(vvv) \/ IsStr(vvv)

(* the shapes of the values of a nested object field of a match *)
InnerShape(vv) ==
    \/ IsScalar(vv)
    \/ IsList(vv) /\ (Len(vv[3]) = 0 \/ FlatSubRecords(vv))
    \/ IsDict(vv) /\ \A m \in 1..Len(vv[3]) : ExtendedShape(vv[3][m][2])

(* a nested object field of a match *)
NestedField(k, val) ==
    IsDict(val) /\ k \notin SkippedMatchKeys /\ k # "geometry"

(* every field of the match is a scalar or a nested object of these shapes *)
ExpandableMatch(match) ==
    \A p \in 1..Len(match[3]) :
        LET k == match[3][p][1]
            val == match[3][p][2]
        IN  \/ IsScalar(val) /\ k # "geometry"
            \/ NestedField(k, val) /\ \A n \in 1..Len(val[3]) : InnerShape(val[3][n][2])

(* what the row holds for the inner key kk of a nested object *)
Expanded(row, kk, vv) ==
    IF IsList(vv)
    THEN (FlatSubRecords(vv) /\ ~StartsWith(kk, "ppe_")) =>
             SerializedAs(row, "match_" \o kk, vv)
    ELSE IF IsDict(vv)
    THEN \A m \in 1..Len(vv[3]) :
             /\ HasKey(row, "match_" \o kk \o "_" \o vv[3][m][1])
             /\ IsStr(Lookup(row, "match_" \o kk \o "_" \o vv[3][m][1]))
    ELSE ~StartsWith(kk, "ppe_") =>
             /\ HasKey(row, "match_" \o kk)
             /\ Lookup(row, "match_" \o kk) = vv

(* C16: a record whose matches hold scalar fields and nested objects, the  *)
(* inner values being scalars, lists of sub-records or objects of lists of *)
(* sub-records, lists of strings and strings, is flattened without fault;  *)
(* a list of sub-records under kk is serialized as match_<kk>, every key   *)
(* kkk of an inner object is a string match_<kk>_<kkk>, and any other      *)
(* value that is not under a ppe_ key is match_<kk> unchanged.             *)
C16_NestedMatchExpansion ==
    (/\ FlattenCalled
     /\ \A i \in 1..Len(InputMatches) : ExpandableMatch(InputMatches[i])) =>
        /\ IsOk(alldata)
        /\ \A i \in 1..Len(InputMatches) : \A p \in 1..Len(InputMatches[i][3]) :
              LET val == InputMatches[i][3][p][2]
              IN  NestedField(InputMatches[i][3][p][1], val) =>
                      \A n \in 1..Len(val[3]) :
                          Expanded(alldata[2][i], val[3][n][1], val[3][n][2])

(* C17: in get_facility, a property whose value is a sequence of plain     *)
(* scalars, the empty sequence included, never makes the call fail and is  *)
(* in the row as the elements' texts joined by newline, in input order.    *)
C17_PlainScalarSequences ==
    (/\ op[1] = "get_facility" /\ r[2]
     /\ IsOk(FacilityHead(r[3]))
     /\ LET p == Lookup(r[3][3], "properties")[3]
        IN  \A n \in 1..Len(p) :
               \/ IsScalar(p[n][2]) /\ p[n][1] # "created_from"
               \/ IsList(p[n][2]) /\ \A m \in 1..Len(p[n][2][3]) :
                                        IsScalar(p[n][2][3][m])) =>
        /\ IsOk(data)
        /\ LET p == Lookup(r[3][3], "properties")[3]
           IN  \A n \in 1..Len(p) :
                  (IsList(p[n][2]) /\ ~StartsWith(p[n][1], "ppe_")) =>
                      /\ HasKey(data[2], p[n][1])
                      /\ Lookup(data[2], p[n][1]) =
                            Str(Join("\n", ToSeq([m \in 1..Len(p[n][2][3]) |->
                                                   PyStr(p[n][2][3][m])])))

-----------------------------------------------------------------------------
(* Two calls on one record *)

-----------------------------------------------------------------------------
(* get_facilities: the pagination loop *)

MaxPages == 2
MaxCalls == 2

(* pd.DataFrame(rows) *)
DataFrame(rows) == <<"DataFrame", rows>>

(* new_entry for one element of data["features"] *)
FeatureWrites(entry) ==
    LET head == FacilityHead(entry)
        p == Subscript(entry, "properties")
    IN  IF IsRaise(head) THEN head
        ELSE IF IsRaise(p) THEN p
        ELSE IF ~IsDict(p[2]) THEN Raise("AttributeError")
        ELSE Ok(<< <<"os_id", head[2][1][2], <<"id">>>>, head[2][2], head[2][3] >>
                \o ConcatAll(ToSeq([i \in 1..Len(p[2][3]) |->
                       IF StartsWith(p[2][3][i][1], "ppe_") THEN <<>>
                       ELSE << <<p[2][3][i][1], p[2][3][i][2],
                                 <<"properties", p[2][3][i][1]>>>> >>])))

(* the rows of one page, or the exception its first bad entry raises *)
PageRows(body) ==
    LET f == Subscript(body, "features")
    IN  IF IsRaise(f) THEN f
        ELSE IF IsRaise(Iterate(f[2])) THEN Iterate(f[2])
        ELSE LET it == Iterate(f[2])[2]
                 each == ToSeq([i \in 1..Len(it) |-> FeatureWrites(it[i])])
             IN  IF \E i \in 1..Len(each) : IsRaise(each[i])
                 THEN each[CHOOSE i \in 1..Len(each) :
                              IsRaise(each[i]) /\ \A j \in 1..(i - 1) : IsOk(each[j])]
                 ELSE Ok(ToSeq([i \in 1..Len(each) |-> ApplyWrites(<<>>, each[i][2])]))

HasNext_KeyOnly(body) == HasKey(body[3], "next")

(* 'next' in data.keys() and data["next"] is not None *)
HasNext(body) ==
    HasKey(body[3], "next") /\ ~IsNone(Lookup(body[3], "next"))

(* f"{self.url}/api/facilities/?{parameters}" with the default parameters *)
FirstUrl == "/api/facilities/?detail=false"

Feature(id, props) ==
    Dict(Field("id", Str(id))
         \o Field("geometry", Coordinates(<<Num(10), Num(20)>>))
         \o Field("properties", Dict(props)))

FeatureLists ==
    { <<>>,
      << Feature("A", Field("name", Str("Acme")) \o Field("ppe_foo", Str("x"))),
         Feature("B", <<>>) >>,
      << Dict(Field("id", Str("C")) \o Field("properties", Dict(<<>>))) >> }

NextFields ==
    { <<>>, Field("next", Null),
      Field("next", Str("/api/facilities/?page=2")),
      Field("next", Str("/api/facilities/?page=3")) }

(* <<r.ok, json.loads(r.text)>> for the answers to GET /api/facilities/ *)
PageResponses ==
    {<<FALSE, Null>>}
    \cup {<<TRUE, JsonLoads(Dict(Field("features", List(fs)) \o n))>> :
             fs \in FeatureLists, n \in NextFields}

(* the server's last page: an answer that is not OK, or one that names no *)
(* next page                                                              *)
LastPage(resp) ==
    IF ~resp[1] THEN TRUE
    ELSE IF ~HasKey(resp[2][3], "next") THEN TRUE
    ELSE IsNone(Lookup(resp[2][3], "next"))

(* no call is in progress *)
Idle == op[1] \in {"init", "done"}

(* get_facilities() up to the loop: lines 430-481 *)
GetFacilitiesCall ==
    /\ Idle
    /\ calls < MaxCalls
    /\ calls' = calls + 1
    /\ op' = <<"get_facilities">>
    /\ request_url' = Str(FirstUrl)
    /\ have_next' = TRUE
    /\ alldata' = <<>>
    /\ data' = NoCall
    /\ sent' = <<>>
    /\ received' = <<>>
    /\ UNCHANGED <<r, json_data, alldata_again, result, raw_result, self_v,
                   last_api_call_epoch, last_api_call_duration, clock>>
    /\ UNCHANGED <<contributors, countries_active_count, facility_processing_types>>

(* one turn of the loop: lines 483-509.  The server answers as it likes,  *)
(* but the MaxPages-th page it serves is the last one.                    *)
GetFacilitiesPage ==
    /\ op = <<"get_facilities">>
    /\ have_next
    /\ \E resp \in PageResponses :
        /\ Len(sent) + 1 >= MaxPages => LastPage(resp)
        /\ last_api_call_epoch' = clock
        /\ clock' = clock + Latency
        /\ last_api_call_duration' = clock' - last_api_call_epoch'
        /\ sent' = Append(sent, <<"GET", request_url>>)
        /\ received' = Append(received, resp)
        /\ r' = resp
        /\ IF resp[1]
           THEN LET rows == PageRows(resp[2])
                IN  IF IsRaise(rows)
                    THEN /\ data' = rows
                         /\ op' = <<"done", "get_facilities">>
                         /\ UNCHANGED <<alldata, result, request_url, have_next>>
                    ELSE /\ alldata' = alldata \o rows[2]
                         /\ result' = 0
                         /\ IF HasNext(resp[2])
                            THEN /\ request_url' = Lookup(resp[2][3], "next")
                                 /\ UNCHANGED have_next
                            ELSE /\ have_next' = FALSE
                                 /\ UNCHANGED request_url
                         /\ UNCHANGED <<data, op>>
           ELSE /\ result' = -1
                /\ have_next' = FALSE
                /\ UNCHANGED <<alldata, data, op, request_url>>
    /\ UNCHANGED <<json_data, alldata_again, raw_result, self_v, calls>>
    /\ UNCHANGED <<contributors, countries_active_count, facility_processing_types>>

(* return pd.DataFrame(alldata): line 511 *)
GetFacilitiesReturn ==
    /\ op = <<"get_facilities">>
    /\ ~have_next
    /\ data' = Ok(DataFrame(alldata))
    /\ op' = <<"done", "get_facilities">>
    /\ UNCHANGED <<r, json_data, alldata, alldata_again, result, raw_result, self_v>>
    /\ UNCHANGED client_vars

-----------------------------------------------------------------------------
(* post_facilities *)

(* str.strip: blanks removed at both ends *)
RECURSIVE Strip(_)
Strip(s) ==
    IF Len(s) = 0 THEN s
    ELSE IF SubSeq(s, 1, 1) = " " THEN Strip(SubSeq(s, 2, Len(s)))
    ELSE IF SubSeq(s, Len(s), Len(s)) = " " THEN Strip(SubSeq(s, 1, Len(s) - 1))
    ELSE s

Validate_CountryFirst(name, address, country) ==
    IF Len(country) = 0 THEN -102
    ELSE IF Len(name) = 0 THEN -100
    ELSE IF Len(address) = 0 THEN -101
    ELSE 0

(* the result code of the first check that fails, 0 when none does *)
Validate(name, address, country) ==
    IF Len(name) = 0 THEN -100
    ELSE IF Len(address) = 0 THEN -101
    ELSE IF Len(country) = 0 THEN -102
    ELSE 0

(* payload, built from the parameters; the optional ones are left empty *)
Payload(name, address, country, sector) ==
    Field("name", Str(Strip(name)))
    \o Field("address", Str(Strip(address)))
    \o Field("country", Str(Strip(country)))
    \o Field("sector", IF Len(sector) > 0 THEN Str(Strip(sector))
                       ELSE Str("Unspecified"))

(* the URL with create, public and textonlyfallback at their defaults *)
PostUrl == "/api/facilities/??create=false&public=true&textonlyfallback=false"

(* pd.DataFrame({"status": "HTTP_ERROR"}): a dict of scalars and no index *)
DataFrameOfScalars(items) == Raise("ValueError")

Names == {"", "Acme", " Acme "}
Addresses == {"", "Str. 9"}
Countries == {"", "DE"}
Sectors == {"", " Apparel "}
DataDicts == {<<>>, Field("name", Str("Acme")) \o Field("country", Str("DE"))}

(* <<r.ok, json.loads(r.text)>> for the answers to POST /api/facilities/ *)
PostResponses ==
    { <<FALSE, Null>>,
      <<TRUE, JsonLoads(ScenarioNoMatch)>>,
      <<TRUE, JsonLoads(ScenarioWithMatch)>>,
      <<TRUE, JsonLoads(Dict(Field("id", Str("X1"))))>> }

(* data = self._flatten_facilities_json(data); pd.DataFrame(data):        *)
(* an exception of the first ends the call before self.result is set      *)
TableOf(flat) ==
    IF IsRaise(flat) THEN flat ELSE Ok(DataFrame(flat[2]))

(* post_facilities(name, address, country, sector, data) *)
PostFacilities ==
    /\ Idle
    /\ calls < MaxCalls
    /\ calls' = calls + 1
    /\ \E name \in Names, address \in Addresses, country \in Countries,
          sector \in Sectors, data_arg \in DataDicts :
        /\ op' = <<"done", "post_facilities", name, address, country, sector, data_arg>>
        /\ IF Len(data_arg) = 0 /\ Validate(name, address, country) # 0
           THEN /\ result' = Validate(name, address, country)
                /\ data' = Ok(DataFrame(<<>>))
                /\ sent' = <<>>
                /\ received' = <<>>
                /\ UNCHANGED <<r, last_api_call_epoch, last_api_call_duration, clock>>
           ELSE \E resp \in PostResponses :
                /\ last_api_call_epoch' = clock
                /\ clock' = clock + Latency
                /\ last_api_call_duration' = clock' - last_api_call_epoch'
                /\ sent' = << <<"POST", PostUrl,
                                IF Len(data_arg) = 0
                                THEN Payload(name, address, country, sector)
                                ELSE data_arg>> >>
                /\ received' = <<resp>>
                /\ r' = resp
                /\ IF resp[1]
                   THEN /\ data' = TableOf(_flatten_facilities_json(resp[2]))
                        /\ result' = IF IsOk(data') THEN 0 ELSE result
                   ELSE /\ data' = DataFrameOfScalars(Field("status", Str("HTTP_ERROR")))
                        /\ UNCHANGED result
    /\ UNCHANGED <<json_data, alldata, alldata_again, raw_result, self_v,
                   request_url, have_next>>
    /\ UNCHANGED <<contributors, countries_active_count, facility_processing_types>>

-----------------------------------------------------------------------------
(* The lookup operations: one GET each, answered once *)

(* for cid,con in raw_data: an element is unpacked into two names *)
Unpack2(v) ==
    IF IsRaise(Iterate(v)) THEN Raise("TypeError")
    ELSE IF Len(Iterate(v)[2]) # 2 THEN Raise("ValueError")
    ELSE Ok(Iterate(v)[2])

(* [{"contributor_id":cid,"contributor_name":con} for cid,con in raw_data] *)
ContributorRows(raw_data) ==
    IF IsRaise(Iterate(raw_data)) THEN Iterate(raw_data)
    ELSE LET it == Iterate(raw_data)[2]
         IN  Collect(ToSeq([i \in 1..Len(it) |->
                 IF IsRaise(Unpack2(it[i])) THEN Unpack2(it[i])
                 ELSE Ok(<< << <<"contributor_id", Unpack2(it[i])[2][1]>>,
                               <<"contributor_name", Unpack2(it[i])[2][2]>> >> >>)]))

(* <<r.ok, json.loads(r.text)>> for the answers to GET /api/contributors *)
ContributorResponses ==
    { <<FALSE, Null>>,
      <<TRUE, JsonLoads(List(<<>>))>>,
      <<TRUE, JsonLoads(List(<< List(<<Num(1), Str("Acme")>>),
                                List(<<Num(2), Str("Bolt")>>) >>))>>,
      <<TRUE, JsonLoads(List(<< List(<<Num(1)>>) >>))>>,
      <<TRUE, JsonLoads(Dict(Field("detail", Str("Invalid token."))))>> }

(* get_contributors(): lines 139-171 *)
GetContributors ==
    /\ Idle
    /\ calls < MaxCalls
    /\ calls' = calls + 1
    /\ op' = <<"done", "get_contributors">>
    /\ \E resp \in ContributorResponses :
        /\ last_api_call_epoch' = clock
        /\ clock' = clock + Latency
        /\ last_api_call_duration' = clock' - last_api_call_epoch'
        /\ sent' = << <<"GET", Str("/api/contributors")>> >>
        /\ received' = <<resp>>
        /\ r' = resp
        /\ IF resp[1]
           THEN /\ data' = ContributorRows(resp[2])
                /\ result' = IF IsOk(data') THEN 0 ELSE result
                /\ contributors' = IF IsOk(data') THEN data'[2] ELSE contributors
           ELSE /\ data' = Ok(<<>>)
                /\ result' = -1
                /\ contributors' = <<>>
    /\ UNCHANGED <<json_data, alldata, alldata_again, raw_result, self_v,
                   request_url, have_next>>
    /\ UNCHANGED <<countries_active_count, facility_processing_types>>

(* the value of a decimal digit *)
DigitOf(c) == CHOOSE d \in 0..9 : SubSeq("0123456789", d + 1, d + 1) = c

(* int() of a string of decimal digits, read from the left *)
RECURSIVE ParseDigits(_, _)
ParseDigits(s, acc) ==
    IF Len(s) = 0 THEN Ok(Num(acc))
    ELSE IF \E d \in 0..9 : SubSeq("0123456789", d + 1, d + 1) = SubSeq(s, 1, 1)
    THEN ParseDigits(SubSeq(s, 2, Len(s)), 10 * acc + DigitOf(SubSeq(s, 1, 1)))
    ELSE Raise("ValueError")

(* int(x) for a JSON value: a number, or a string of digits *)
PyInt(v) ==
    IF v[1] = "num" THEN Ok(v)
    ELSE IF IsStr(v)
    THEN IF Len(v[2]) = 0 THEN Raise("ValueError") ELSE ParseDigits(v[2], 0)
    ELSE Raise("TypeError")

(* int(json.loads(r.text)["count"]) *)
CountOf(body) ==
    IF IsRaise(Subscript(body, "count")) THEN Subscript(body, "count")
    ELSE PyInt(Subscript(body, "count")[2])

(* <<r.ok, json.loads(r.text)>> for GET /api/countries/active_count *)
CountResponses ==
    { <<FALSE, Null>>,
      <<TRUE, JsonLoads(Dict(Field("count", Num(5))))>>,
      <<TRUE, JsonLoads(Dict(Field("count", Str("12"))))>>,
      <<TRUE, JsonLoads(Dict(Field("count", Null)))>>,
      <<TRUE, JsonLoads(Dict(Field("detail", Str("Invalid token."))))>> }

(* get_countries_active_count(): lines 329-349 *)
GetCountriesActiveCount ==
    /\ Idle
    /\ calls < MaxCalls
    /\ calls' = calls + 1
    /\ op' = <<"done", "get_countries_active_count">>
    /\ \E resp \in CountResponses :
        /\ last_api_call_epoch' = clock
        /\ clock' = clock + Latency
        /\ last_api_call_duration' = clock' - last_api_call_epoch'
        /\ sent' = << <<"GET", Str("/api/countries/active_count")>> >>
        /\ received' = <<resp>>
        /\ r' = resp
        /\ IF resp[1]
           THEN /\ data' = CountOf(resp[2])
                /\ result' = IF IsOk(data') THEN 0 ELSE result
                /\ countries_active_count' =
                       IF IsOk(data') THEN data'[2][2] ELSE countries_active_count
           ELSE /\ data' = Ok(Num(-1))
                /\ result' = -1
                /\ countries_active_count' = -1
    /\ UNCHANGED <<json_data, alldata, alldata_again, raw_result, self_v,
                   request_url, have_next>>
    /\ UNCHANGED <<contributors, facility_processing_types>>

(* the rows of one facility_processing_type: lines 826-830 *)
ProcessingTypeRowsOf(t) ==
    LET ps == Subscript(t, "processingTypes")
    IN  IF IsRaise(ps) THEN ps
        ELSE IF IsRaise(Iterate(ps[2])) THEN Iterate(ps[2])
        ELSE IF Len(Iterate(ps[2])[2]) = 0 THEN Ok(<<>>)
        ELSE IF IsRaise(Subscript(t, "facilityType")) THEN Subscript(t, "facilityType")
        ELSE Ok(ToSeq([i \in 1..Len(Iterate(ps[2])[2]) |->
                 << <<"facility_type", Subscript(t, "facilityType")[2]>>,
                    <<"processing_type", Iterate(ps[2])[2][i]>> >>]))

(* alldata after the loop of lines 825-830 *)
ProcessingTypeRows(types) ==
    IF IsRaise(Iterate(types)) THEN Iterate(types)
    ELSE Collect(ToSeq([i \in 1..Len(Iterate(types)[2]) |->
             ProcessingTypeRowsOf(Iterate(types)[2][i])]))

(* pd.DataFrame(alldata) in the else branch of line 832, where the local *)
(* alldata has not been bound                                            *)
UnboundLocal == Raise("UnboundLocalError")

(* <<r.ok, json.loads(r.text)>> for GET /api/facility-processing-types/ *)
ProcessingTypeResponses ==
    { <<FALSE, Null>>,
      <<TRUE, JsonLoads(List(<<>>))>>,
      <<TRUE, JsonLoads(List(<<
          Dict(Field("facilityType", Str("Mill"))
               \o Field("processingTypes", List(<<Str("Spinning"), Str("Weaving")>>))),
          Dict(Field("facilityType", Str("Office"))
               \o Field("processingTypes", List(<<>>))) >>))>>,
      <<TRUE, JsonLoads(List(<<
          Dict(Field("processingTypes", List(<<Str("Dyeing")>>))) >>))>> }

(* get_facility_processing_types(): lines 809-837 *)
GetFacilityProcessingTypes ==
    /\ Idle
    /\ calls < MaxCalls
    /\ calls' = calls + 1
    /\ op' = <<"done", "get_facility_processing_types">>
    /\ \E resp \in ProcessingTypeResponses :
        /\ last_api_call_epoch' = clock
        /\ clock' = clock + Latency
        /\ last_api_call_duration' = clock' - last_api_call_epoch'
        /\ sent' = << <<"GET", Str("/api/facility-processing-types/")>> >>
        /\ received' = <<resp>>
        /\ r' = resp
        /\ IF resp[1]
           THEN /\ result' = 0
                /\ data' = TableOf(ProcessingTypeRows(resp[2]))
                /\ facility_processing_types' =
                       IF IsOk(data') THEN data'[2] ELSE facility_processing_types
           ELSE /\ data' = UnboundLocal
                /\ UNCHANGED <<result, facility_processing_types>>
    /\ UNCHANGED <<json_data, alldata, alldata_again, raw_result, self_v,
                   request_url, have_next>>
    /\ UNCHANGED <<contributors, countries_active_count>>

-----------------------------------------------------------------------------
(* The client: calls of get_facilities, post_facilities and the lookup   *)
(* operations, one after the other.  A call in progress runs on: the loop *)
(* of get_facilities takes its next turn and returns when its condition   *)
(* is false.                                                              *)

ClientSpecInit ==
    /\ r = NoCall
    /\ json_data = NoCall
    /\ alldata = NoCall
    /\ alldata_again = NoCall
    /\ data = NoCall
    /\ result = 0
    /\ raw_result = NoCall
    /\ self_v = NoCall
    /\ op = <<"init">>
    /\ ClientInit

ClientNext ==
    \/ GetFacilitiesCall \/ GetFacilitiesPage \/ GetFacilitiesReturn
    \/ PostFacilities
    \/ GetContributors \/ GetCountriesActiveCount \/ GetFacilityProcessingTypes

ClientSpec ==
    /\ ClientSpecInit
    /\ [][ClientNext]_vars
    /\ WF_vars(GetFacilitiesPage)
    /\ WF_vars(GetFacilitiesReturn)

-----------------------------------------------------------------------------
(* Pagination *)

GetFacilitiesReturned == op = <<"done", "get_facilities">> /\ IsOk(data)

(* the rows of the OK pages among the first n responses, in page order *)
RECURSIVE RowsOfPages(_)
RowsOfPages(n) ==
    IF n = 0 THEN <<>>
    ELSE RowsOfPages(n - 1)
         \o (IF received[n][1] THEN PageRows(received[n][2])[2] ELSE <<>>)

(* one request per response, the first to the URL of the query, every     *)
(* other one to the next of the response before it, which was OK          *)
OneRequestPerPage ==
    /\ Len(sent) = Len(received)
    /\ \A n \in 1..Len(sent) :
          IF n = 1 THEN sent[n] = <<"GET", Str(FirstUrl)>>
          ELSE /\ ~LastPage(received[n - 1])
               /\ sent[n] = <<"GET", Lookup(received[n - 1][2][3], "next")>>

(* the table returned: the last response ended the loop, the rows are     *)
(* those of the OK pages, the result code tells whether the last was OK   *)
ReturnedTable ==
    GetFacilitiesReturned =>
        /\ Len(received) >= 1
        /\ LastPage(received[Len(received)])
        /\ data = Ok(DataFrame(RowsOfPages(Len(received))))
        /\ result = (IF received[Len(received)][1] THEN 0 ELSE -1)

(* C19: get_facilities sends one request per page, each but the first to  *)
(* the next URL of the response before; it stops at the first response    *)
(* that is not OK or has no next (absent or null), so that a call, the     *)
(* server serving a last page at some point, comes to its end; the table   *)
(* returned holds the rows of all OK pages in page order and the result    *)
(* code is 0 if the last response was OK, -1 if not.                       *)
C19_Pagination ==
    /\ [](op[1] = "get_facilities" \/ op = <<"done", "get_facilities">>
             => OneRequestPerPage /\ ReturnedTable)
    /\ (op = <<"get_facilities">>) ~> (op = <<"done", "get_facilities">>)

C19_Witness ==
    /\ GetFacilitiesReturned
    /\ Len(received) >= 2
    /\ ~received[Len(received)][1]
    /\ Len(data[2][2]) >= 2
    /\ result = -1

-----------------------------------------------------------------------------
(* Validation of post_facilities *)

(* post_facilities has ended, called without a data dict *)
PostedFields ==
    /\ op[1] = "done" /\ Len(op) > 2
    /\ op[2] = "post_facilities"
    /\ Len(op[7]) = 0

(* name, address and country were all given *)
AllGiven == op[3] # "" /\ op[4] # "" /\ op[5] # ""

(* the code of the first of name, address, country that is empty *)
FirstEmpty ==
    IF op[3] = "" THEN -100 ELSE IF op[4] = "" THEN -101 ELSE -102

Validated ==
    PostedFields =>
        /\ Len(sent) = (IF AllGiven THEN 1 ELSE 0)
        /\ ~AllGiven =>
              /\ data = Ok(DataFrame(<<>>))
              /\ result = FirstEmpty
        /\ (AllGiven /\ op[6] = "") =>
              Lookup(sent[1][3], "sector") = Str("Unspecified")

-----------------------------------------------------------------------------
(* Answers that are not OK *)

(* the call made last has finished and its last answer was not OK *)
NonOkAnswered ==
    /\ op[1] = "done"
    /\ Len(received) > 0
    /\ ~received[Len(received)][1]

(* a table of one row, status = HTTP_ERROR *)
StatusRow == DataFrame(<< << <<"status", Str("HTTP_ERROR")>> >> >>)

(* the value the operation returns when it has nothing to return *)
SentinelReturned ==
    /\ IsOk(data)
    /\ IF op[2] = "get_contributors" THEN data[2] = <<>>
       ELSE IF op[2] = "get_countries_active_count" THEN data[2] = Num(-1)
       ELSE IF op[2] = "post_facilities"
       THEN data[2] = DataFrame(<<>>) \/ data[2] = StatusRow
       ELSE data[2] = DataFrame(<<>>)

(* C21: after any sequence of earlier calls, an operation whose request is *)
(* answered with a non-OK response returns normally, returns its empty or  *)
(* sentinel value (an empty list or table, -1, or a status row) and leaves *)
(* the result code at -1; it neither raises an exception nor leaves the    *)
(* result code of an earlier call in place.                                *)
C21_UniformNonOk ==
    NonOkAnswered => SentinelReturned /\ result = -1

-----------------------------------------------------------------------------
(* The rename and the other keys and values *)

(* an object with scalar values, or a non-empty sequence of such objects *)
FlatComposite(val) ==
    IF IsDict(val)
    THEN \A m \in 1..Len(val[3]) : IsScalar(val[3][m][2])
    ELSE FlatSubRecords(val)

(* the sub-records of a value, in order *)
RecordsIn(val) == IF IsDict(val) THEN <<val>> ELSE val[3]

(* the pairs of the input as they are, the key lng written lon or left *)
PairAsGiven(k, val, renamed) ==
    (IF renamed /\ k = "lng" THEN "lon" ELSE k) \o ":" \o PyStr(val)
LinesAsGiven(val, renamed) ==
    Join("\n", ToSeq([n \in 1..Len(RecordsIn(val)) |->
        Join("|", ToSeq([m \in 1..Len(RecordsIn(val)[n][3]) |->
            PairAsGiven(RecordsIn(val)[n][3][m][1],
                        RecordsIn(val)[n][3][m][2], renamed)]))]))

ConfinedIn(s, val) ==
    FlatComposite(val) =>
        s = LinesAsGiven(val, TRUE) \/ s = LinesAsGiven(val, FALSE)

(* C22: in every string that a row holds for an object or for a sequence   *)
(* of sub-records, nothing but a key that is exactly lng differs from the  *)
(* input: every other key, also one that ends in lng, and every value,     *)
(* also a string that contains lng:, is in the string as it was given.     *)
C22_RenameConfined ==
    /\ FacilityReturned =>
          \A sv \in FacilitySerialized : ConfinedIn(sv[1], sv[2])
    /\ (FlattenReturned /\ Len(InputMatches) >= 1) =>
          \A i \in 1..Len(InputMatches) :
              \A sv \in MatchSerialized(i) : ConfinedIn(sv[1], sv[2])

====
